---------------------------- MODULE Spec2Model ----------------------------
(* A model of merge-fleet-records.js: the daily run generateAndMerge, which *)
(* renders today's fleet CSV, downloads yesterday's merged file, carves the *)
(* defleet and update batches out of it, classifies today's records and     *)
(* writes six JSON record sets and the merged CSV.                          *)
(*                                                                          *)
(* A line of text is a sequence of tokens.  A token is a string: "," is the *)
(* column delimiter, " " is white space, "0".."9" are digits and any other  *)
(* token stands for a run of ordinary characters.  A text file is the       *)
(* sequence of its lines, i.e. what split(/\r?\n/) yields and what          *)
(* join('\n') takes.                                                        *)
EXTENDS Integers, Sequences, FiniteSets, TLC

(***************************************************************************)
(* Bounds of the model.                                                    *)
(***************************************************************************)
\* Largest number of lines after the count line in the first snapshot.
MaxSnap == 23
\* Largest <count> argument of a run, besides the blanking threshold 10.
MaxCount == 3
\* Number of consecutive runs explored.
MaxRuns == 2
\* In a malformed snapshot every MalformedEvery-th line is short.
MalformedEvery == 4

(***************************************************************************)
(* Constants of the program.                                               *)
(***************************************************************************)
defleetIdx ==
  [license_plate_number |-> 2, license_plate_state |-> 3, year |-> 4,
   make |-> 5, model |-> 6, color |-> 7, vin |-> 8]

errorColumnMapping ==
  [brand |-> 0, ody_vehicle_id_number |-> 1, license_plate_number |-> 2,
   license_plate_state |-> 3, year |-> 4, make |-> 5, model |-> 6,
   color |-> 7, vin |-> 8, location_group |-> 9, location_code |-> 10,
   location_name |-> 11, address_1 |-> 12, address_2 |-> 13, city |-> 14,
   state |-> 15, zip |-> 16, phone_number |-> 17, vehicle_erac |-> 18]

commonWords == <<"delta">>

usStates == <<"AL", "AK", "AZ">>

(***************************************************************************)
(* JavaScript values and array methods.                                    *)
(***************************************************************************)
\* The value undefined, as the content of a column or a property.
Undefined == <<"#undefined">>

Min(a, b) == IF a < b THEN a ELSE b

Max(a, b) == IF a > b THEN a ELSE b

\* Array.prototype.slice's resolution of a relative index against length n.
RelIndex(k, n) == IF k < 0 THEN Max(n + k, 0) ELSE Min(k, n)

\* arr.slice(start, end), both 0-based and possibly negative.
Slice(arr, start, end) ==
  LET from == RelIndex(start, Len(arr))
      to   == RelIndex(end, Len(arr))
  IN  SubSeq(arr, from + 1, to)

\* arr.slice(start)
SliceFrom(arr, start) == Slice(arr, start, Len(arr))

\* What arr.splice(start, n) leaves in arr.
SpliceRest(arr, start, n) ==
  LET from == RelIndex(start, Len(arr))
      cnt  == Min(Max(n, 0), Len(arr) - from)
  IN  SubSeq(arr, 1, from) \o SubSeq(arr, from + cnt + 1, Len(arr))

\* What arr.splice(start, n) returns.
SpliceTaken(arr, start, n) ==
  LET from == RelIndex(start, Len(arr))
      cnt  == Min(Max(n, 0), Len(arr) - from)
  IN  SubSeq(arr, from + 1, from + cnt)

\* arr[idx] for a 0-based idx: undefined outside the array.
At(arr, idx) == IF idx >= 0 /\ idx < Len(arr) THEN arr[idx + 1] ELSE Undefined

\* arr[idx] = v: an index past the end leaves holes, which read as undefined.
SetAt(arr, idx, v) ==
  [k \in 1..Max(Len(arr), idx + 1) |->
     IF k = idx + 1 THEN v ELSE IF k <= Len(arr) THEN arr[k] ELSE Undefined]

\* line.split(','): the columns of a line, each a sequence of tokens.
RECURSIVE Split(_)
Split(line) ==
  IF \A k \in 1..Len(line) : line[k] # ","
  THEN <<line>>
  ELSE LET i == CHOOSE k \in 1..Len(line) :
                  line[k] = "," /\ \A j \in 1..(k - 1) : line[j] # ","
       IN  <<SubSeq(line, 1, i - 1)>> \o Split(SubSeq(line, i + 1, Len(line)))

\* cols.join(','): undefined elements and holes are joined as empty strings.
RECURSIVE Join(_)
Join(cols) ==
  IF Len(cols) = 0 THEN <<>>
  ELSE LET first == IF cols[1] = Undefined THEN <<>> ELSE cols[1]
       IN  IF Len(cols) = 1 THEN first ELSE first \o <<",">> \o Join(Tail(cols))

\* line.trim()
RECURSIVE Trim(_)
Trim(line) ==
  IF Len(line) = 0 THEN line
  ELSE IF line[1] = " " THEN Trim(Tail(line))
  ELSE IF line[Len(line)] = " " THEN Trim(SubSeq(line, 1, Len(line) - 1))
  ELSE line

Digits == <<"0", "1", "2", "3", "4", "5", "6", "7", "8", "9">>

\* n.toString() and String(n) for n >= 0: one token per decimal digit.
RECURSIVE ToDecimal(_)
ToDecimal(n) ==
  IF n < 10 THEN <<Digits[n + 1]>> ELSE ToDecimal(n \div 10) \o <<Digits[(n % 10) + 1]>>

\* /^[0-9]+$/.test(line)
IsPureNumber(line) ==
  Len(line) > 0 /\ \A k \in 1..Len(line) : \E d \in 1..10 : line[k] = Digits[d]

\* String(i).padStart(n, '0') followed onto a prefix, as one token.
RECURSIVE PadStart(_, _)
PadStart(s, n) == IF Len(s) >= n THEN s ELSE PadStart("0" \o s, n)


(***************************************************************************)
(* Today's synthetic records (generateSFleetData) and their CSV text.      *)
(* A row is the sequence of its 19 column values, in the order of          *)
(* errorColumnMapping; the values faker and Math.random draw are fixed to  *)
(* one representative each.                                                *)
(***************************************************************************)
RowOf(prefix, i) ==
  <<<<"Enterprise">>,
    <<"ODY-" \o prefix \o PadStart(ToString(i), 4)>>,
    <<prefix \o PadStart(ToString(i), 4)>>,
    <<usStates[((i - 1) % Len(usStates)) + 1]>>,
    <<"2024">>, <<"Ford">>, <<"Focus">>, <<"red">>,
    <<"VIN" \o ToString(i)>>,
    <<"GroupFR" \o PadStart(ToString(i), 5)>>,
    <<"LOC1">>, <<"Athens">>, <<"MainSt1">>,
    <<"Block" \o PadStart(ToString(i), 6)>>,
    <<"Macon">>, <<"GA">>, <<"30001">>, <<"555-0100">>,
    <<"ERAC-" \o prefix \o PadStart(ToString(i), 4)>>>>

\* generateSFleetData(count): rows 1..count, the last two blanked from 10 rows on.
generateSFleetData(cnt) ==
  [i \in 1..cnt |->
     IF cnt >= 10 /\ i = cnt
     THEN [RowOf("ADN", i) EXCEPT ![errorColumnMapping.license_plate_number + 1] = <<>>]
     ELSE IF cnt >= 10 /\ i = cnt - 1
     THEN [RowOf("ADN", i) EXCEPT ![errorColumnMapping.license_plate_state + 1] = <<>>]
     ELSE RowOf("ADN", i)]

\* The text fleettemplete.liquid renders for the rows: an optional count line,
\* one line per row, and the empty line after the last line break.
RenderCsv(rows, withCount) ==
  (IF withCount THEN <<ToDecimal(Len(rows))>> ELSE <<>>)
    \o [i \in 1..Len(rows) |-> Join(rows[i])]
    \o << <<>> >>

\* parseCsvRecords(text): trimmed lines, without blank and pure-number lines.
KeepCsvLine(line) == line # <<>> /\ ~IsPureNumber(line)

parseCsvRecords(text) ==
  SelectSeq([k \in 1..Len(text) |-> Trim(text[k])], KeepCsvLine)

(***************************************************************************)
(* Yesterday's file on the SFTP server, as a previous run or anybody else  *)
(* may have left it.                                                       *)
(***************************************************************************)
SnapshotShapes == {"clean", "malformed", "padded"}

SnapshotLine(shape, i) ==
  IF shape = "malformed" /\ i % MalformedEvery = 0
  THEN Join(SubSeq(RowOf("OLD", i), 1, 3))
  ELSE IF shape = "padded"
  THEN <<" ">> \o Join(RowOf("OLD", i)) \o <<" ">>
  ELSE Join(RowOf("OLD", i))

SnapshotFile(shape, n) ==
  <<ToDecimal(n)>>
    \o [i \in 1..n |-> SnapshotLine(shape, i)]
    \o (IF shape = "padded" THEN << <<>> >> ELSE <<>>)

NoFile == [present |-> FALSE, lines |-> <<>>]

FileOf(lines) == [present |-> TRUE, lines |-> lines]

(***************************************************************************)
(* The steps of generateAndMerge as functions of their inputs.             *)
(***************************************************************************)
\* Step 4: the non-blank trimmed lines of yesterday's file, without the first
\* line and, when at least two lines are left, without the last two.
NonBlank(line) == line # <<>>

CleanYesterday(lines) ==
  LET raw     == SelectSeq([k \in 1..Len(lines) |-> Trim(lines[k])], NonBlank)
      shifted == IF Len(raw) = 0 THEN raw ELSE Tail(raw)
  IN  IF Len(shifted) >= 2 THEN SpliceRest(shifted, -2, 2) ELSE shifted

\* Step 5: oldRecords.splice(-10, 10) when at least 10 records are left.
DefleetBatchOf(old) == IF Len(old) >= 10 THEN SpliceTaken(old, -10, 10) ELSE <<>>

DefleetRestOf(old) == IF Len(old) >= 10 THEN SpliceRest(old, -10, 10) ELSE old

\* The object literal of steps 5 and 8: one property per key of defleetIdx.
ProjectVehicle(line) ==
  LET cols == Split(line)
  IN  [key \in DOMAIN defleetIdx |-> At(cols, defleetIdx[key])]

\* Step 6.
UpdateStartOf(old) == Len(old) - 10

UpdateBatchOf(old) == SliceFrom(old, UpdateStartOf(old))

UpdateColor(i) == <<commonWords[(i % Len(commonWords)) + 1]>>

\* The object literal of step 6, for the line at position i (0-based) of the batch.
ProjectUpdate(line, i) ==
  LET cols == Split(line)
  IN  [key \in DOMAIN defleetIdx |->
         IF key = "color" THEN UpdateColor(i) ELSE At(cols, defleetIdx[key])]

\* One turn of the loop that applies the colour in the CSV: the line at idx,
\* which the caller has found to exist.
RecolorLine(line, i) == Join(SetAt(Split(line), defleetIdx.color, UpdateColor(i)))

\* The loop from turn i on.  oldRecords[idx] of an index outside the array is
\* undefined, and undefined.split throws a TypeError, which ends the loop.
RECURSIVE ApplyColorFrom(_, _, _, _)
ApplyColorFrom(recs, start, len, i) ==
  IF i >= len THEN [threw |-> FALSE, recs |-> recs]
  ELSE LET idx == start + i
       IN  IF At(recs, idx) = Undefined
           THEN [threw |-> TRUE, recs |-> recs]
           ELSE ApplyColorFrom(
                  [recs EXCEPT ![idx + 1] = RecolorLine(recs[idx + 1], i)],
                  start, len, i + 1)

\* Step 8: obj[key] = cols[idx] || ''
ProjectError(line) ==
  LET cols == Split(line)
  IN  [key \in DOMAIN errorColumnMapping |->
         IF At(cols, errorColumnMapping[key]) = Undefined
         THEN <<>> ELSE At(cols, errorColumnMapping[key])]

ErrorLinesOf(new) == SliceFrom(new, -2)

\* All but the last line.
InfleetAllButLast(new) == Slice(new, 0, -1)

InfleetLinesOf(new) == Slice(new, 0, -2)

FleetOf(r) ==
  [license_plate_number |-> r.license_plate_number,
   license_plate_state  |-> r.license_plate_state]

\* Step 10 counting the new records only.
MergedOfMiscount(old, new) == <<ToDecimal(Len(new))>> \o old \o new

\* Step 10 without the count line.
MergedOfNoCount(old, new) == old \o new

\* Step 10: the count line, the old records, the new records.
MergedOf(old, new) == <<ToDecimal(Len(old) + Len(new))>> \o old \o new

\* JSON.stringify of an array of objects: a property whose value is undefined
\* is left out of its object.
Stringify(data) ==
  [k \in 1..Len(data) |->
     [key \in {x \in DOMAIN data[k] : data[k][x] # Undefined} |-> data[k][key]]]

(***************************************************************************)
(* The state: the files outside the process, and the locals of the run.    *)
(***************************************************************************)
VARIABLES
  pc,             \* the step generateAndMerge is about to take
  runs,           \* the number of runs started so far
  err,            \* what ended the run: "none", "io" or "TypeError"
  remote,         \* yesterday's file in sftpRemoteDir
  yestLocal,      \* temp-yesterday.<fmt>
  written,        \* the names of the files the run has written, in order
  out,            \* the content of each file the run has written
  count,          \* the <count> argument
  todayCsv,       \* the rendered text
  oldRecords, defleetBatch, defleetData,
  updateStart, updateBatch, updateData,
  newRecords, errorRecords, infleetRecords, fleetRecords, historyRecords,
  chained,        \* yesterday's file is the merged file of the run before
  prevOld,        \* oldRecords of that run when it merged
  prevNew         \* newRecords of that run

locals ==
  <<count, todayCsv, yestLocal, oldRecords, defleetBatch, defleetData,
    updateStart, updateBatch, updateData, newRecords, errorRecords,
    infleetRecords, fleetRecords, historyRecords>>

files == <<written, out>>

prev == <<chained, prevOld, prevNew>>

vars == <<pc, runs, err, remote, files, locals, prev>>

OutputNames ==
  {"today", "defleet", "update", "error_records", "infleet_records",
   "fleet_records", "history_records", "merged"}

NothingWritten == [name \in OutputNames |-> <<>>]

Counts == (0..MaxCount) \cup {10}

Init ==
  /\ pc = "idle"
  /\ runs = 0
  /\ err = "none"
  /\ \/ remote = NoFile
     \/ \E shape \in SnapshotShapes, n \in 0..MaxSnap :
          remote = FileOf(SnapshotFile(shape, n))
     \/ remote = FileOf(<<>>)
  /\ yestLocal = NoFile
  /\ written = <<>>
  /\ out = NothingWritten
  /\ count = 0
  /\ todayCsv = <<>>
  /\ oldRecords = <<>>
  /\ defleetBatch = <<>>
  /\ defleetData = <<>>
  /\ updateStart = 0
  /\ updateBatch = <<>>
  /\ updateData = <<>>
  /\ newRecords = <<>>
  /\ errorRecords = <<>>
  /\ infleetRecords = <<>>
  /\ fleetRecords = <<>>
  /\ historyRecords = <<>>
  /\ chained = FALSE
  /\ prevOld = <<>>
  /\ prevNew = <<>>

\* fs.writeFileSync of one output file.
WriteFile(name, content) ==
  /\ written' = Append(written, name)
  /\ out' = [out EXCEPT ![name] = content]

\* The command line: node merge-fleet-records.js <count> <csv|txt>.
StartRun ==
  /\ pc = "idle"
  /\ runs < MaxRuns
  /\ \E c \in Counts : count' = c
  /\ runs' = runs + 1
  /\ pc' = "render"
  /\ err' = "none"
  /\ written' = <<>>
  /\ out' = NothingWritten
  /\ UNCHANGED <<remote, yestLocal, todayCsv, oldRecords, defleetBatch,
                 defleetData, updateStart, updateBatch, updateData, newRecords,
                 errorRecords, infleetRecords, fleetRecords, historyRecords, prev>>

\* Steps 1 and 2: render today's CSV and save it raw.
Render ==
  /\ pc = "render"
  /\ \E withCount \in BOOLEAN :
       todayCsv' = RenderCsv(generateSFleetData(count), withCount)
  /\ WriteFile("today", todayCsv')
  /\ pc' = "download"
  /\ UNCHANGED <<runs, err, remote, count, yestLocal, oldRecords, defleetBatch,
                 defleetData, updateStart, updateBatch, updateData, newRecords,
                 errorRecords, infleetRecords, fleetRecords, historyRecords, prev>>

\* Step 3: downloadYesterdayFile copies the remote file, or returns null.
Download ==
  /\ pc = "download"
  /\ yestLocal' = remote
  /\ pc' = "load"
  /\ UNCHANGED <<runs, err, remote, files, count, todayCsv, oldRecords,
                 defleetBatch, defleetData, updateStart, updateBatch, updateData,
                 newRecords, errorRecords, infleetRecords, fleetRecords,
                 historyRecords, prev>>

\* Step 4: load and clean yesterday's data, and unlink the temporary file.
LoadYesterday ==
  /\ pc = "load"
  /\ oldRecords' = IF yestLocal.present THEN CleanYesterday(yestLocal.lines) ELSE <<>>
  /\ yestLocal' = NoFile
  /\ pc' = "defleet"
  /\ UNCHANGED <<runs, err, remote, files, count, todayCsv, defleetBatch,
                 defleetData, updateStart, updateBatch, updateData, newRecords,
                 errorRecords, infleetRecords, fleetRecords, historyRecords, prev>>

\* Step 5 up to the save.
Defleet ==
  /\ pc = "defleet"
  /\ defleetBatch' = DefleetBatchOf(oldRecords)
  /\ oldRecords' = DefleetRestOf(oldRecords)
  /\ defleetData' = [k \in 1..Len(defleetBatch') |-> ProjectVehicle(defleetBatch'[k])]
  /\ pc' = "saveDefleet"
  /\ UNCHANGED <<runs, err, remote, files, count, todayCsv, yestLocal,
                 updateStart, updateBatch, updateData, newRecords, errorRecords,
                 infleetRecords, fleetRecords, historyRecords, prev>>

\* if (defleetData.length) saveJson(defleetOutputDir, 'defleet', ts, defleetData)
SaveDefleet ==
  /\ pc = "saveDefleet"
  /\ IF Len(defleetData) > 0
     THEN WriteFile("defleet", Stringify(defleetData))
     ELSE UNCHANGED files
  /\ pc' = "update"
  /\ UNCHANGED <<runs, err, remote, locals, prev>>

\* Step 6 up to the save.
Update ==
  /\ pc = "update"
  /\ updateStart' = UpdateStartOf(oldRecords)
  /\ updateBatch' = UpdateBatchOf(oldRecords)
  /\ updateData' = [k \in 1..Len(updateBatch') |-> ProjectUpdate(updateBatch'[k], k - 1)]
  /\ pc' = "saveUpdate"
  /\ UNCHANGED <<runs, err, remote, files, count, todayCsv, yestLocal, oldRecords,
                 defleetBatch, defleetData, newRecords, errorRecords,
                 infleetRecords, fleetRecords, historyRecords, prev>>

\* if (updateData.length) saveJson(updateOutputDir, 'update', ts, updateData)
SaveUpdate ==
  /\ pc = "saveUpdate"
  /\ IF Len(updateData) > 0
     THEN WriteFile("update", Stringify(updateData))
     ELSE UNCHANGED files
  /\ pc' = "color"
  /\ UNCHANGED <<runs, err, remote, locals, prev>>

\* The loop that applies the same colour override in the CSV, run to its end.
ApplyColor ==
  /\ pc = "color"
  /\ LET res == ApplyColorFrom(oldRecords, updateStart, Len(updateBatch), 0)
     IN  /\ ~res.threw
         /\ oldRecords' = res.recs
  /\ pc' = "classify"
  /\ UNCHANGED <<runs, err, remote, files, count, todayCsv, yestLocal,
                 defleetBatch, defleetData, updateStart, updateBatch, updateData,
                 newRecords, errorRecords, infleetRecords, fleetRecords,
                 historyRecords, prev>>

\* The same loop when a turn reads oldRecords[idx] outside the array: the
\* TypeError rejects the promise of generateAndMerge, which nobody catches.
ApplyColorThrows ==
  /\ pc = "color"
  /\ LET res == ApplyColorFrom(oldRecords, updateStart, Len(updateBatch), 0)
     IN  /\ res.threw
         /\ oldRecords' = res.recs
  /\ pc' = "failed"
  /\ err' = "TypeError"
  /\ UNCHANGED <<runs, remote, files, count, todayCsv, yestLocal,
                 defleetBatch, defleetData, updateStart, updateBatch, updateData,
                 newRecords, errorRecords, infleetRecords, fleetRecords,
                 historyRecords, prev>>

\* Steps 7 and 8, and the history of step 9, up to the saves.
Classify ==
  /\ pc = "classify"
  /\ newRecords' = parseCsvRecords(todayCsv)
  /\ errorRecords' =
       LET ls == ErrorLinesOf(newRecords') IN [k \in 1..Len(ls) |-> ProjectError(ls[k])]
  /\ infleetRecords' =
       LET ls == InfleetLinesOf(newRecords') IN [k \in 1..Len(ls) |-> ProjectVehicle(ls[k])]
  /\ fleetRecords' = [k \in 1..Len(infleetRecords') |-> FleetOf(infleetRecords'[k])]
  /\ pc' = "saveError"
  /\ UNCHANGED <<runs, err, remote, files, count, todayCsv, yestLocal, oldRecords,
                 defleetBatch, defleetData, updateStart, updateBatch, updateData,
                 historyRecords, prev>>

SaveError ==
  /\ pc = "saveError"
  /\ WriteFile("error_records", Stringify(errorRecords))
  /\ pc' = "saveInfleet"
  /\ UNCHANGED <<runs, err, remote, locals, prev>>

SaveInfleet ==
  /\ pc = "saveInfleet"
  /\ WriteFile("infleet_records", Stringify(infleetRecords))
  /\ pc' = "saveFleet"
  /\ UNCHANGED <<runs, err, remote, locals, prev>>

SaveFleet ==
  /\ pc = "saveFleet"
  /\ WriteFile("fleet_records", Stringify(fleetRecords))
  /\ pc' = "saveHistory"
  /\ UNCHANGED <<runs, err, remote, locals, prev>>

\* Step 9 with the merged CSV written before the history.
SaveHistoryAfterMerge ==
  /\ pc = "saveHistory"
  /\ historyRecords' = infleetRecords \o updateData
  /\ written' = written \o <<"merged", "history_records">>
  /\ out' = [out EXCEPT !["merged"] = MergedOf(oldRecords, newRecords),
                        !["history_records"] = Stringify(historyRecords')]
  /\ pc' = "done"
  /\ UNCHANGED <<runs, err, remote, count, todayCsv, yestLocal, oldRecords,
                 defleetBatch, defleetData, updateStart, updateBatch, updateData,
                 newRecords, errorRecords, infleetRecords, fleetRecords, prev>>

\* Step 9: history = infleet + update.
SaveHistory ==
  /\ pc = "saveHistory"
  /\ historyRecords' = infleetRecords \o updateData
  /\ WriteFile("history_records", Stringify(historyRecords'))
  /\ pc' = "merge"
  /\ UNCHANGED <<runs, err, remote, count, todayCsv, yestLocal, oldRecords,
                 defleetBatch, defleetData, updateStart, updateBatch, updateData,
                 newRecords, errorRecords, infleetRecords, fleetRecords, prev>>

\* Step 10: write the merged CSV.
MergeCsv ==
  /\ pc = "merge"
  /\ WriteFile("merged", MergedOf(oldRecords, newRecords))
  /\ pc' = "done"
  /\ UNCHANGED <<runs, err, remote, locals, prev>>

\* The steps that call the file system or the SFTP server, each of which may throw.
DoesIO ==
  \/ pc \in {"render", "download", "saveError", "saveInfleet", "saveFleet",
              "saveHistory", "merge"}
  \/ pc = "saveDefleet" /\ Len(defleetData) > 0
  \/ pc = "saveUpdate" /\ Len(updateData) > 0

\* An I/O call throws: the rejection ends the run where it stands.
IOFailure ==
  /\ DoesIO
  /\ pc' = "failed"
  /\ err' = "io"
  /\ UNCHANGED <<runs, remote, files, locals, prev>>

\* The process exits: the next run starts with fresh locals.
ProcessExit ==
  /\ count' = 0
  /\ todayCsv' = <<>>
  /\ yestLocal' = NoFile
  /\ oldRecords' = <<>>
  /\ defleetBatch' = <<>>
  /\ defleetData' = <<>>
  /\ updateStart' = 0
  /\ updateBatch' = <<>>
  /\ updateData' = <<>>
  /\ newRecords' = <<>>
  /\ errorRecords' = <<>>
  /\ infleetRecords' = <<>>
  /\ fleetRecords' = <<>>
  /\ historyRecords' = <<>>

\* The merged file of a finished run is uploaded as the next day's
\* em-fleet-<date> file, which the next run downloads.
Publish ==
  /\ pc = "done"
  /\ remote' = FileOf(out.merged)
  /\ chained' = TRUE
  /\ prevOld' = oldRecords
  /\ prevNew' = newRecords
  /\ pc' = "idle"
  /\ ProcessExit
  /\ UNCHANGED <<runs, err, files>>

\* After a failed run the next day's run finds the remote directory as it was.
Abandon ==
  /\ pc = "failed"
  /\ chained' = FALSE
  /\ prevOld' = <<>>
  /\ prevNew' = <<>>
  /\ pc' = "idle"
  /\ ProcessExit
  /\ UNCHANGED <<runs, err, remote, files>>

Next ==
  \/ StartRun
  \/ Render
  \/ Download
  \/ LoadYesterday
  \/ Defleet
  \/ SaveDefleet
  \/ Update
  \/ SaveUpdate
  \/ ApplyColor
  \/ ApplyColorThrows
  \/ Classify
  \/ SaveError
  \/ SaveInfleet
  \/ SaveFleet
  \/ SaveHistory
  \/ MergeCsv
  \/ IOFailure
  \/ Publish
  \/ Abandon

Spec == Init /\ [][Next]_vars

(***************************************************************************)
(* Vocabulary of the properties.                                           *)
(***************************************************************************)
SixSets ==
  {"defleet", "update", "error_records", "infleet_records", "fleet_records",
   "history_records"}

Written(name) == \E k \in 1..Len(written) : written[k] = name

RunEnded == pc \in {"done", "failed"}

\* The usable tail of the snapshot the run reads: what is left of it after the
\* header line and the 2 trailing lines are stripped.
UsableTail == IF remote.present THEN CleanYesterday(remote.lines) ELSE <<>>

\* The last n elements of a sequence of at least n elements.
LastN(seq, n) == SubSeq(seq, Len(seq) - n + 1, Len(seq))

\* The first n elements.
FirstN(seq, n) == SubSeq(seq, 1, n)

\* The number a line of decimal digits denotes.
RECURSIVE DecimalValue(_)
DecimalValue(line) ==
  IF Len(line) = 0 THEN 0
  ELSE 10 * DecimalValue(SubSeq(line, 1, Len(line) - 1))
         + ((CHOOSE d \in 1..10 : Digits[d] = line[Len(line)]) - 1)

\* The steps after the classification of the New Batch.
Classified ==
  pc \in {"saveError", "saveInfleet", "saveFleet", "saveHistory", "merge", "done"}

(***************************************************************************)
(* C1.  With n the length of the usable tail: the DefleetBatch is the last *)
(* 10 tail records, removed from the tail, when n >= 10, and empty with    *)
(* nothing removed when n < 10; the UpdateBatch is then the last           *)
(* min(10, k) of the k records that remain.                                *)
(***************************************************************************)
C1_Partition ==
  pc = "saveUpdate" =>
    LET n    == Len(UsableTail)
        rest == IF n >= 10 THEN FirstN(UsableTail, n - 10) ELSE UsableTail
        k    == Len(rest)
    IN  /\ defleetBatch = (IF n >= 10 THEN LastN(UsableTail, 10) ELSE <<>>)
        /\ oldRecords = rest
        /\ updateBatch = LastN(rest, Min(10, k))

(***************************************************************************)
(* C2.  In every run that no I/O failure ends, each UpdateBatch record at  *)
(* position i is emitted with color = wordList[i mod length], the tail     *)
(* line it came from carries that word in its color column in the          *)
(* MergedSnapshot, with its other columns unchanged, and the tail lines    *)
(* outside the UpdateBatch are in the MergedSnapshot unchanged.            *)
(***************************************************************************)
C2_ColorOverride ==
  (RunEnded /\ err # "io" /\ Len(updateBatch) > 0) =>
    LET tail == DefleetRestOf(UsableTail)
        k    == Len(tail)
        b    == Len(updateBatch)
        word(i) == <<commonWords[(i % Len(commonWords)) + 1]>>
    IN  /\ \A i \in 0..(b - 1) : updateData[i + 1].color = word(i)
        /\ Written("merged")
        /\ Len(out.merged) >= 1 + k
        /\ \A j \in 1..k :
             LET was == Split(tail[j])
                 now == Split(out.merged[j + 1])
             IN  IF j > k - b
                 THEN /\ At(now, defleetIdx.color) = word(j - (k - b) - 1)
                      /\ \A c \in 1..Len(was) :
                           c # defleetIdx.color + 1 => now[c] = was[c]
                 ELSE out.merged[j + 1] = tail[j]

(***************************************************************************)
(* C3.  The first line of every MergedSnapshot written is the decimal      *)
(* rendering of (length of the mutated tail + number of New Batch lines),  *)
(* the mutated tail lines and then the New Batch lines follow it, and the  *)
(* integer equals the number of lines that follow it.                      *)
(***************************************************************************)
C3_MergedHeader ==
  pc = "done" =>
    LET m == out.merged
    IN  /\ Written("merged")
        /\ Len(m) >= 1
        /\ IsPureNumber(m[1])
        /\ m[1] = ToDecimal(Len(oldRecords) + Len(newRecords))
        /\ SubSeq(m, 2, Len(oldRecords) + 1) = oldRecords
        /\ SubSeq(m, Len(oldRecords) + 2, Len(m)) = newRecords
        /\ DecimalValue(m[1]) = Len(m) - 1

C3_Witness ==
  /\ pc = "done"
  /\ Written("merged")
  /\ Len(oldRecords) >= 10
  /\ Len(newRecords) >= 3
  /\ \E j \in 1..Len(oldRecords) : oldRecords[j] # DefleetRestOf(UsableTail)[j]

(***************************************************************************)
(* C4.  No partial emission: a run that has ended has written all six      *)
(* record sets and the MergedSnapshot, or none of them.                    *)
(***************************************************************************)
C4_NoPartialEmission ==
  RunEnded =>
    \/ \A name \in SixSets \cup {"merged"} : Written(name)
    \/ \A name \in SixSets \cup {"merged"} : ~Written(name)

(***************************************************************************)
(* C5.  A run whose I/O does not fail ends without an error and has        *)
(* written all six record sets and the MergedSnapshot, whatever the prior  *)
(* snapshot and the New Batch are.                                         *)
(***************************************************************************)
C5_AlwaysCompletes ==
  (RunEnded /\ err # "io") =>
    /\ pc = "done"
    /\ \A name \in SixSets \cup {"merged"} : Written(name)

(***************************************************************************)
(* C6.  For a New Batch of m lines, ErrorRecords are the last min(2, m)    *)
(* lines, InfleetRecords the first max(0, m - 2) lines in order, so both   *)
(* together are the New Batch; FleetRecords holds, per InfleetRecord and   *)
(* in order, only its plate number and plate state.  The step has no       *)
(* throwing branch: it ends in the first save whatever m is.               *)
(***************************************************************************)
C6_Classification ==
  /\ Classified =>
       LET m == Len(newRecords)
           e == Min(2, m)
           f == Max(0, m - 2)
       IN  /\ Len(errorRecords) = e
           /\ \A j \in 1..e : errorRecords[j] = ProjectError(newRecords[f + j])
           /\ Len(infleetRecords) = f
           /\ \A j \in 1..f : infleetRecords[j] = ProjectVehicle(newRecords[j])
           /\ e + f = m
           /\ Len(fleetRecords) = f
           /\ \A j \in 1..f :
                /\ DOMAIN fleetRecords[j] = {"license_plate_number", "license_plate_state"}
                /\ fleetRecords[j].license_plate_number
                     = At(Split(newRecords[j]), defleetIdx.license_plate_number)
                /\ fleetRecords[j].license_plate_state
                     = At(Split(newRecords[j]), defleetIdx.license_plate_state)

C6_Witness ==
  /\ pc = "done"
  /\ Len(newRecords) = 1
  /\ Len(errorRecords) = 1
  /\ Len(infleetRecords) = 0

(***************************************************************************)
(* C7.  In every record set written, a schema field whose column index is  *)
(* beyond the length of the line it is read from is present with the      *)
(* value "" (the color of an update record being the override).            *)
(***************************************************************************)
EmptyBeyond(doc, lines, schema, skip) ==
  \A k \in 1..Len(lines) :
    \A key \in (DOMAIN schema) \ skip :
      schema[key] >= Len(Split(lines[k])) =>
        /\ k <= Len(doc)
        /\ key \in DOMAIN doc[k]
        /\ doc[k][key] = <<>>

C7_MissingFieldEmpty ==
  /\ Written("defleet") => EmptyBeyond(out.defleet, defleetBatch, defleetIdx, {})
  /\ Written("update") => EmptyBeyond(out.update, updateBatch, defleetIdx, {"color"})
  /\ Written("infleet_records") =>
       EmptyBeyond(out.infleet_records, InfleetLinesOf(newRecords), defleetIdx, {})
  /\ Written("error_records") =>
       EmptyBeyond(out.error_records, ErrorLinesOf(newRecords), errorColumnMapping, {})

C9_PositiveHeader ==
  pc = "done" =>
    /\ Len(out.merged) >= 1
    /\ IsPureNumber(out.merged[1])
    /\ DecimalValue(out.merged[1]) >= 1

(***************************************************************************)
(* C9 as amended.  The header line of every snapshot written is an integer *)
(* literal without sign or leading zero that is >= 0; it is >= 1 exactly   *)
(* when a data line follows it, and 0 when the mutated tail and the New    *)
(* Batch are both empty.                                                   *)
(***************************************************************************)
C9_NaturalHeader ==
  pc = "done" =>
    /\ Len(out.merged) >= 1
    /\ IsPureNumber(out.merged[1])
    /\ Len(out.merged[1]) > 1 => out.merged[1][1] # "0"
    /\ DecimalValue(out.merged[1]) >= 1 <=> Len(out.merged) > 1
    /\ DecimalValue(out.merged[1]) = 0 <=> (oldRecords = <<>> /\ newRecords = <<>>)

C9_Witness ==
  /\ pc = "done"
  /\ count = 0
  /\ ~remote.present
  /\ out.merged = << <<"0">> >>

(***************************************************************************)
(* C10.  When the snapshot a run loads is the MergedSnapshot of the run    *)
(* before, the 2 trailing lines it discards are the lines that run         *)
(* classified as ErrorRecords: its usable tail is the mutated tail of the  *)
(* run before followed by that run's InfleetRecords lines.                 *)
(***************************************************************************)
C10_DiscardsErrorRows ==
  (chained /\ pc = "defleet") =>
    oldRecords = prevOld \o FirstN(prevNew, Max(0, Len(prevNew) - 2))

=============================================================================
